---------------------------- MODULE Spec2Model ----------------------------
(***************************************************************************)
(* Model of iromlab.py: the carrierEntry GUI object, the flags of the      *)
(* shared config module, the polling loop of main() and the worker threads *)
(* that on_submit starts (cdworker.processDisc).                           *)
(*                                                                         *)
(* Threads.  The main thread runs main()'s loop; every Tk callback         *)
(* (on_create, on_open, on_quit, on_submit) runs on it, inside             *)
(* root.update().  A callback is one action: the message boxes it shows    *)
(* are modal (native dialogs on Windows, the platform of the tools) and    *)
(* the answers to them are inputs of the action.  The callbacks are bound  *)
(* to buttons and, with bind_all, to Control-n/o/e/s; a key binding does   *)
(* not depend on the state of any button, so each callback can run         *)
(* whenever the main thread is in its loop.  An exception that leaves a    *)
(* callback is reported by Tk and the loop goes on; one that leaves the    *)
(* loop itself ends the main thread.                                       *)
(* Each accepted submission starts one worker thread.  cdworker is not     *)
(* part of iromlab.py; the worker is modelled by its contract: it brings   *)
(* the job to a terminal state, appends the job's record to the batch      *)
(* manifest and sets config.finishedDisc.                                  *)
(*                                                                         *)
(* Spec is the program from its start (getConfiguration) on, with the      *)
(* worker as one step per job, the socket API switched off and no batch    *)
(* that ends.  BatchEndSpec adds the end of a batch (finishedBatch, the    *)
(* KeyboardInterrupt clause of main() and reset_gui); EntrySpec switches   *)
(* the socket API on and adds the Use previous button.  They are kept      *)
(* apart from Spec to keep each state space small enough to search.        *)
(* JobSpec looks inside the worker: it starts                              *)
(* in the state Spec reaches with New and one accepted submission, and its *)
(* steps are those of the job state machine of spec.md, section 4.5, with  *)
(* the disc classifier of section 4.2.                                     *)
(***************************************************************************)
EXTENDS Integers, Sequences, FiniteSets, TLC

(***************************************************************************)
(* Bounds of the model.                                                    *)
(***************************************************************************)
\* worker threads started in one run
MaxJobs == 2
\* calls of on_create in one run (each draws a fresh uuid1 batch name)
MaxNew == 1
\* calls of on_submit between two resets of carrierNumber
MaxCarrier == 2
\* messages waiting in the queue of the socket API
MaxQueue == 1

(***************************************************************************)
(* Inputs.                                                                 *)
(***************************************************************************)
\* what the operator can type in the volume number field
VolumeInputs == {"0 ", "x"}
\* what the operator can type in the PPN (or title) field
EntryInputs == {" p "}
\* what a client of the socket API can send
Messages == {"p", ""}
\* what sru.search can return: no response, an empty result, one record
CatalogResponses == {[ok |-> FALSE, nr_of_records |-> 0, title |-> ""],
                     [ok |-> TRUE, nr_of_records |-> 0, title |-> ""],
                     [ok |-> TRUE, nr_of_records |-> 1, title |-> "T"]}
\* uuid1 job identifiers, in the order they are drawn
JobIDs == <<"job-1", "job-2", "job-3", "job-4", "job-5">>
\* the terminal states of a job
Terminal == {"Done", "Failed", "Rejected"}

\* Folders: 0 is the empty path '' that askdirectory returns on Cancel
\* (paths joined to it are relative to the working directory), 1.. are
\* the batch folders on_create makes, in the order it makes them.
NoFolder == 0
Folders == 0..MaxNew
NoFile == << <<"(no file)">> >>
NoThread == 0

VARIABLES
    enablePPNLookup,   \* config.enablePPNLookup
    startOnFinalize,   \* config.startOnFinalize
    readyToStart,      \* config.readyToStart
    finishedBatch,     \* config.finishedBatch
    batchIsOpen,       \* config.batchIsOpen
    processingDisc,    \* config.processingDisc
    finishedDisc,      \* config.finishedDisc
    quitFlag,          \* config.quitFlag
    batchFolder,       \* config.batchFolder
    batchManifest,     \* config.batchManifest (the folder the path is in)
    catidOld, titleOld, volumeNoOld, carrierNumber, t1,  \* carrierEntry fields
    widget,            \* state of each button and entry
    entryText,         \* contents of catid_entry (PPN mode) or title_entry
    volumeNoText,      \* contents of volumeNo_entry
    tv,                \* rows of the treeview, first row on top
    threads,           \* the worker threads started so far
    dirs,              \* folders that exist
    versionFile,       \* version.txt of each folder
    manifest,          \* manifest.csv of each folder
    logFile,           \* folders that hold a batch.log
    batchesMade,       \* number of batch names drawn by on_create
    cdDriveLetter,     \* config.cdDriveLetter
    cdDrives,          \* what each call of cdinfo.getDrives returned
    job,               \* the carrier job inside cdworker.processDisc
    enableSocketAPI,   \* config.enableSocketAPI
    q,                 \* the queue between the socket server and main()
    pc                 \* where the main thread is

config == <<enablePPNLookup, startOnFinalize, readyToStart, finishedBatch,
            batchIsOpen, processingDisc, finishedDisc, quitFlag,
            batchFolder, batchManifest>>
gui == <<catidOld, titleOld, volumeNoOld, carrierNumber, t1, widget,
         entryText, volumeNoText, tv>>
files == <<dirs, versionFile, manifest, logFile, batchesMade>>
startup == <<cdDriveLetter, cdDrives>>
socket == <<enableSocketAPI, q>>
vars == <<config, gui, files, startup, socket, job, threads, pc>>

(***************************************************************************)
(* Strings.                                                                *)
(***************************************************************************)
Char(s, i) == SubSeq(s, i, i)

RECURSIVE lstrip(_)
lstrip(s) == IF Len(s) > 0 /\ Char(s, 1) = " "
             THEN lstrip(SubSeq(s, 2, Len(s))) ELSE s

RECURSIVE rstrip(_)
rstrip(s) == IF Len(s) > 0 /\ Char(s, Len(s)) = " "
             THEN rstrip(SubSeq(s, 1, Len(s) - 1)) ELSE s

\* str.strip()
strip(s) == rstrip(lstrip(s))

Digits == "0123456789"
IsDigit(c) == \E d \in 1..10 : Char(Digits, d) = c
DigitValue(c) == CHOOSE d \in 0..9 : Char(Digits, d + 1) = c

\* the digits of an integer literal: the text after an optional sign
Unsigned(s) == IF Len(s) > 0 /\ Char(s, 1) \in {"+", "-"}
               THEN SubSeq(s, 2, Len(s)) ELSE s

\* int(s) raises no ValueError
IntLiteral(s) ==
    LET u == Unsigned(strip(s))
    IN  Len(u) > 0 /\ \A i \in 1..Len(u) : IsDigit(Char(u, i))

RECURSIVE Magnitude(_)
Magnitude(u) == IF Len(u) = 0 THEN 0
                ELSE 10 * Magnitude(SubSeq(u, 1, Len(u) - 1))
                     + DigitValue(Char(u, Len(u)))

\* int(s), for s an integer literal
int(s) ==
    LET t == strip(s)
    IN  IF Len(t) > 0 /\ Char(t, 1) = "-"
        THEN 0 - Magnitude(Unsigned(t)) ELSE Magnitude(Unsigned(t))

representsInt(s) == IntLiteral(s)

(***************************************************************************)
(* The batch manifest.                                                     *)
(***************************************************************************)
\* the line on_create writes to version.txt
version == <<"1.0.8">>

headerBatchManifest ==
    <<"jobID", "PPN", "volumeNo", "title", "volumeID", "success",
      "containsAudio", "containsData", "cdExtra", "mixedMode", "cdInteractive">>

\* open(path, "a") then writerow(row): the file is created when missing
AppendRow(file, row) == IF file = NoFile THEN <<row>> ELSE Append(file, row)

BoolText(b) == IF b THEN "True" ELSE "False"

(***************************************************************************)
(* The carrier job as cdworker holds it (spec.md, section 3).              *)
(***************************************************************************)
NoFlags == [containsAudio |-> FALSE, containsData |-> FALSE, isCdExtra |-> FALSE,
            isMixedMode |-> FALSE, isCdInteractive |-> FALSE]

NoReport == [tracks |-> <<>>, sessions |-> 0, trailingAudio |-> FALSE,
             interactive |-> FALSE]

\* status: the lifecycle state; path: the states passed so far; calls: the
\* external calls made so far, in order; success: unknown until terminal
NoJob == [status |-> "Idle", path |-> <<"Idle">>, report |-> NoReport,
          mediaFlags |-> NoFlags, error |-> "", calls |-> <<>>,
          results |-> <<>>, success |-> "unknown", warnings |-> {}]

(***************************************************************************)
(* DiscTypeClassifier (spec.md, section 4.2).  A DriveReport is what the   *)
(* disc-inspection tool reports: the track table, the number of sessions,  *)
(* whether the last session has the signature of an audio session, and     *)
(* whether an interactive track is present.  An empty track table is the   *)
(* report of a drive without a medium.                                     *)
(***************************************************************************)
\* tracks in a track table
MaxTracks == 3
\* sessions on a disc
MaxSessions == 2

TrackTables == UNION {[1..n -> {"audio", "data"}] : n \in 0..MaxTracks}

DriveReports == [tracks : TrackTables, sessions : 1..MaxSessions,
                 trailingAudio : BOOLEAN, interactive : BOOLEAN]

AnyAudio(r) == \E i \in DOMAIN r.tracks : r.tracks[i] = "audio"
AnyData(r) == \E i \in DOMAIN r.tracks : r.tracks[i] = "data"
AllAudio(r) == \A i \in DOMAIN r.tracks : r.tracks[i] = "audio"
AllData(r) == \A i \in DOMAIN r.tracks : r.tracks[i] = "data"

\* the condition of the n-th classification rule, as it is written
RuleCondition(n, r) ==
    CASE n = 1 -> AnyAudio(r) /\ AnyData(r)
      [] n = 2 -> AllAudio(r)
      [] n = 3 -> AllData(r) /\ r.sessions > 1 /\ r.trailingAudio
      [] n = 4 -> r.interactive
      [] n = 5 -> TRUE

\* the n-th rule fires: its condition holds and no earlier rule's does
Fires(n, r) == RuleCondition(n, r) /\ \A m \in 1..(n - 1) : ~RuleCondition(m, r)

\* the media flags the n-th rule sets
RuleFlags(n) ==
    CASE n = 1 -> [NoFlags EXCEPT !.isMixedMode = TRUE, !.containsAudio = TRUE,
                                  !.containsData = TRUE]
      [] n = 2 -> [NoFlags EXCEPT !.containsAudio = TRUE]
      [] n = 3 -> [NoFlags EXCEPT !.isCdExtra = TRUE, !.containsAudio = TRUE,
                                  !.containsData = TRUE]
      [] n = 4 -> [NoFlags EXCEPT !.isCdInteractive = TRUE, !.containsData = TRUE]
      [] n = 5 -> [NoFlags EXCEPT !.containsData = TRUE]

\* SetFlags with a seeded fault: the rules are tried in the order 3, 1, 2,
\* 4, 5 and rule 3 does not ask for the track table to be all data
SetFlags_extraFirst(r) ==
    IF r.sessions > 1 /\ r.trailingAudio THEN RuleFlags(3)
    ELSE RuleFlags(CHOOSE n \in 1..5 : Fires(n, r))

\* the media flags of a report: those of the rule that fires
SetFlags(r) == RuleFlags(CHOOSE n \in 1..5 : Fires(n, r))

\* what the disc-inspection tool can do: exit with a report, exit nonzero
\* (or with a report that cannot be parsed), or run into the timeout
ToolOutputs ==
    {[exit |-> "ok", report |-> r] : r \in DriveReports}
        \cup {[exit |-> e, report |-> NoReport] : e \in {"nonzero", "timeout"}}

\* classify(driveID) -> DriveReport | Error
classify(toolOutput) ==
    IF toolOutput.exit = "timeout"
    THEN [error |-> "HardwareTimeout", report |-> NoReport, mediaFlags |-> NoFlags]
    ELSE IF toolOutput.exit = "nonzero"
    THEN [error |-> "UnreadableMedia", report |-> NoReport, mediaFlags |-> NoFlags]
    ELSE IF toolOutput.report.tracks = <<>>
    THEN [error |-> "NoDiscPresent", report |-> toolOutput.report,
          mediaFlags |-> NoFlags]
    ELSE [error |-> "", report |-> toolOutput.report,
          mediaFlags |-> SetFlags(toolOutput.report)]

(***************************************************************************)
(* Start of the program: main() builds the carrierEntry object, whose      *)
(* build_gui reads the configuration first.                                *)
(***************************************************************************)
\* the drive letters config.xml can name
DriveLetters == {"D:", "E:"}
\* what cdinfo.getDrives can report as the optical drives of the machine
DetectedDrives == {{}, {"D:"}}
\* the audio formats config.xml can name
AudioFormats == {"wav", "flac", "mp3"}

\* ValidDrive with a seeded fault: the result of getDrives is not looked at
ValidDrive_unchecked(letter, drives) == TRUE

ValidDrive(letter, drives) == letter \in drives

\* the state when carrierEntry.__init__ calls getConfiguration;
\* socketAPI: the enableSocketAPI element of config.xml
InitWith(socketAPI) ==
    /\ enablePPNLookup \in BOOLEAN
    /\ startOnFinalize \in BOOLEAN
    /\ readyToStart = FALSE
    /\ finishedBatch = FALSE
    /\ batchIsOpen = FALSE
    /\ processingDisc = FALSE
    /\ finishedDisc = FALSE
    /\ quitFlag = FALSE
    /\ batchFolder = NoFolder
    /\ batchManifest = NoFolder
    /\ catidOld = ""
    /\ titleOld = ""
    /\ volumeNoOld = ""
    /\ carrierNumber = 0
    /\ t1 = NoThread
    /\ widget = [bNew |-> "normal", bOpen |-> "normal", bExit |-> "normal",
                 entry |-> "disabled", useprevious |-> "disabled",
                 volumeNo_entry |-> "disabled", submit_button |-> "disabled"]
    /\ entryText = ""
    /\ volumeNoText = ""
    /\ tv = <<>>
    /\ threads = <<>>
    /\ dirs = {NoFolder}
    /\ versionFile = [f \in Folders |-> NoFile]
    /\ manifest = [f \in Folders |-> NoFile]
    /\ logFile = {}
    /\ batchesMade = 0
    /\ cdDriveLetter \in DriveLetters
    /\ cdDrives = <<>>
    /\ job = NoJob
    /\ enableSocketAPI = socketAPI
    /\ q = <<>>
    /\ pc = "getConfiguration"

\* the socket API is switched off
Init == InitWith(FALSE)

\* the socket API is switched on
SocketInit == InitWith(TRUE)

\* configOk: config.xml is found and parsed, it has every required element
\* and the directories and tools it names exist.  errorExit and
\* checkFileExists show the error and call sys.exit(): SystemExit leaves
\* carrierEntry.__init__ and main(), before main() enters its loop.
getConfiguration ==
    /\ pc = "getConfiguration"
    /\ \E configOk \in BOOLEAN, drives \in DetectedDrives, audioFormat \in AudioFormats :
        IF ~configOk
        THEN /\ pc' = "exited"
             /\ UNCHANGED cdDrives
        ELSE /\ cdDrives' = Append(cdDrives, drives)
             /\ pc' = IF ~ValidDrive(cdDriveLetter, drives) THEN "exited"
                      ELSE IF audioFormat \notin {"wav", "flac"} THEN "exited"
                      ELSE "loop"
    /\ UNCHANGED <<config, gui, files, cdDriveLetter, socket, job, threads>>

(***************************************************************************)
(* on_create and on_open.                                                  *)
(***************************************************************************)
\* the widget updates shared by on_create and on_open
BatchWidgets(w) ==
    [w EXCEPT !.bNew = "disabled", !.bOpen = "disabled",
              !.entry = "normal", !.useprevious = "normal",
              !.volumeNo_entry = "normal", !.submit_button = "normal"]

\* the readyToStart flag after a batch was opened
ReadyAfterOpen == IF ~startOnFinalize THEN TRUE ELSE readyToStart

\* setupLogger with a seeded fault: the handler opens no file
setupLogger_noFile(folder) == logFile

\* setupLogger: FileHandler opens batch.log in append mode
setupLogger(folder) == logFile \cup {folder}

\* successLogger with a seeded fault: a failure of setupLogger is ignored
successLogger_always(loggerOk) == TRUE

\* the successLogger flag: False once setupLogger raised OSError
successLogger(loggerOk) == loggerOk

\* FolderChosen with a seeded fault: Cancel is taken for a folder
FolderChosen_always(folder) == TRUE

\* if config.batchFolder != '': askdirectory returned a folder
FolderChosen(folder) == folder # NoFolder

\* makedirsOk: os.makedirs raised nothing; loggerOk: setupLogger raised no
\* OSError.  When makedirs fails the error is shown and open(versionFile)
\* then raises FileNotFoundError, which ends the callback.
on_create ==
    /\ UNCHANGED <<startup, socket, job>>
    /\ pc = "loop"
    /\ batchesMade < MaxNew
    /\ \E makedirsOk, loggerOk \in BOOLEAN :
        LET folder == batchesMade + 1
        IN  /\ batchesMade' = batchesMade + 1
            /\ batchFolder' = folder
            /\ IF ~makedirsOk
               THEN UNCHANGED <<dirs, versionFile, manifest, logFile, batchManifest,
                                batchIsOpen, readyToStart, widget, volumeNoText>>
               ELSE /\ dirs' = dirs \cup {folder}
                    /\ versionFile' = [versionFile EXCEPT ![folder] = <<version>>]
                    /\ batchManifest' = folder
                    /\ IF manifest[folder] = NoFile
                       THEN /\ manifest' = [manifest EXCEPT
                                   ![folder] = AppendRow(@, headerBatchManifest)]
                            /\ logFile' = IF loggerOk THEN setupLogger(folder)
                                                       ELSE logFile
                            /\ IF successLogger(loggerOk)
                               THEN /\ widget' = BatchWidgets(widget)
                                    /\ volumeNoText' = "1"
                                    /\ batchIsOpen' = TRUE
                                    /\ readyToStart' = ReadyAfterOpen
                               ELSE UNCHANGED <<widget, volumeNoText,
                                                batchIsOpen, readyToStart>>
                       \* headerBatchManifest is unbound: writerow raises
                       ELSE UNCHANGED <<manifest, logFile, widget, volumeNoText,
                                        batchIsOpen, readyToStart>>
    /\ UNCHANGED <<enablePPNLookup, startOnFinalize, finishedBatch, processingDisc,
                   finishedDisc, quitFlag, catidOld, titleOld, volumeNoOld,
                   carrierNumber, t1, entryText, tv, threads, pc>>

\* askdirectory returns an existing directory, or '' on Cancel
on_open ==
    /\ UNCHANGED <<startup, socket, job>>
    /\ pc = "loop"
    /\ \E folder \in dirs, loggerOk \in BOOLEAN :
        /\ batchFolder' = folder
        /\ batchManifest' = folder
        /\ logFile' = IF loggerOk THEN setupLogger(folder) ELSE logFile
        /\ IF successLogger(loggerOk) /\ FolderChosen(folder)
           THEN /\ widget' = BatchWidgets(widget)
                /\ volumeNoText' = "1"
                /\ batchIsOpen' = TRUE
                /\ readyToStart' = ReadyAfterOpen
           ELSE UNCHANGED <<widget, volumeNoText, batchIsOpen, readyToStart>>
    /\ UNCHANGED <<enablePPNLookup, startOnFinalize, finishedBatch, processingDisc,
                   finishedDisc, quitFlag, catidOld, titleOld, volumeNoOld,
                   carrierNumber, t1, entryText, tv, threads, dirs, versionFile,
                   manifest, batchesMade, pc>>

(***************************************************************************)
(* on_submit.                                                              *)
(***************************************************************************)
\* FetchCatid with a seeded fault: the field is read whatever the mode
FetchCatid_anyMode(text) == strip(text)

\* the catalog identifier fetched from the entry field
FetchCatid(text) == IF enablePPNLookup THEN strip(text) ELSE ""

\* the number of catalogue records found for catid
noGGCRecords(catid, response) ==
    IF enablePPNLookup
    THEN IF catid = "" THEN 0
         ELSE IF ~response.ok THEN 0 ELSE response.nr_of_records
    ELSE 1

\* VolumeTooSmall with a seeded fault: the comparison is off by one
VolumeTooSmall_offByOne(volumeNo) == int(volumeNo) < 0

VolumeTooSmall(volumeNo) == int(volumeNo) < 1

\* the checks a submission must pass before the operator is asked to confirm
Valid(catid, volumeNo, response) ==
    /\ batchIsOpen
    /\ representsInt(volumeNo)
    /\ ~VolumeTooSmall(volumeNo)
    /\ noGGCRecords(catid, response) # 0

\* the title shown for confirmation and stored in carrierData
JobTitle(response, text) ==
    IF enablePPNLookup THEN response.title ELSE strip(text)

\* tv.insert('', 0, ...)
TreeviewInsert(rows, row) == <<row>> \o rows

\* StartThread with a seeded fault: the worker is started twice for one job
StartThread_twice(ts, carrierData) ==
    ts \o << [carrierData |-> carrierData, status |-> "Processing"],
             [carrierData |-> carrierData, status |-> "Processing"] >>

\* threading.Thread(target=cdworker.processDisc, args=[carrierData]).start()
StartThread(ts, carrierData) ==
    Append(ts, [carrierData |-> carrierData, status |-> "Processing"])

\* What a field holds when a handler reads it: what the program left in it
\* or, if the Entry is enabled, what the operator has typed over it since.
\* A disabled Entry takes no input.
Typed(state, text, inputs) == IF state = "normal" THEN inputs \cup {text} ELSE {text}

\* response: what sru.search returns; yes: the answer to "Is this correct?"
on_submit ==
    /\ UNCHANGED <<startup, socket, job>>
    /\ pc = "loop"
    /\ carrierNumber < MaxCarrier
    /\ entryText' \in Typed(widget.entry, entryText, EntryInputs)
    /\ volumeNoText' \in Typed(widget.volumeNo_entry, volumeNoText, VolumeInputs)
    /\ \E response \in CatalogResponses, yes \in BOOLEAN :
        LET catid == FetchCatid(entryText')
            volumeNo == strip(volumeNoText')
            carrierData == [jobID |-> JobIDs[Len(threads) + 1],
                            PPN |-> catid,
                            title |-> JobTitle(response, entryText'),
                            volumeNo |-> volumeNo]
        IN  /\ processingDisc' = TRUE
            /\ carrierNumber' = carrierNumber + 1
            /\ catidOld' = IF enablePPNLookup THEN catid ELSE catidOld
            /\ titleOld' = IF enablePPNLookup THEN titleOld ELSE strip(entryText')
            /\ volumeNoOld' = volumeNo
            /\ IF Valid(catid, volumeNo, response) /\ yes
               THEN /\ Len(threads) < MaxJobs
                    /\ tv' = TreeviewInsert(tv, [text |-> carrierNumber',
                                 values |-> <<catid, carrierData.title, volumeNo>>])
                    /\ widget' = [widget EXCEPT !.entry = "disabled",
                                                !.useprevious = "disabled",
                                                !.volumeNo_entry = "disabled",
                                                !.submit_button = "disabled"]
                    /\ threads' = StartThread(threads, carrierData)
                    /\ t1' = Len(threads')
               ELSE UNCHANGED <<tv, widget, threads, t1>>
    /\ UNCHANGED <<enablePPNLookup, startOnFinalize, readyToStart, finishedBatch,
                   batchIsOpen, finishedDisc, quitFlag, batchFolder, batchManifest,
                   files, pc>>

(***************************************************************************)
(* on_quit: the callback never returns.  It ends the process, or waits in  *)
(* its loop, on the main thread, for processingDisc to become False.       *)
(***************************************************************************)
\* on_quit with a seeded fault: with a batch open the callback sets the
\* flag and returns to the main loop instead of waiting
on_quit_returns ==
    /\ UNCHANGED <<startup, socket, job>>
    /\ pc = "loop"
    /\ quitFlag' = TRUE
    /\ widget' = [widget EXCEPT !.bExit = "disabled"]
    /\ pc' = IF ~readyToStart THEN "exited" ELSE "loop"
    /\ UNCHANGED <<enablePPNLookup, startOnFinalize, readyToStart, finishedBatch,
                   batchIsOpen, processingDisc, finishedDisc, batchFolder,
                   batchManifest, catidOld, titleOld, volumeNoOld, carrierNumber,
                   t1, entryText, volumeNoText, tv, files, threads>>

on_quit ==
    /\ UNCHANGED <<startup, socket, job>>
    /\ pc = "loop"
    /\ quitFlag' = TRUE
    /\ widget' = [widget EXCEPT !.bExit = "disabled"]
    /\ pc' = IF ~readyToStart THEN "exited" ELSE "on_quit"
    /\ UNCHANGED <<enablePPNLookup, startOnFinalize, readyToStart, finishedBatch,
                   batchIsOpen, processingDisc, finishedDisc, batchFolder,
                   batchManifest, catidOld, titleOld, volumeNoOld, carrierNumber,
                   t1, entryText, volumeNoText, tv, files, threads>>

\* while config.processingDisc: time.sleep(2), then os._exit(0)
on_quit_wait ==
    /\ UNCHANGED <<startup, socket, job>>
    /\ pc = "on_quit"
    /\ ~processingDisc
    /\ pc' = "exited"
    /\ UNCHANGED <<config, gui, files, threads>>

(***************************************************************************)
(* The polling loop of main().                                             *)
(***************************************************************************)
\* reset_carrier, then the two flags.  In title mode reset_carrier calls
\* self.title_entry(...): an Entry is not callable, the TypeError is not
\* caught by main() and ends the main thread.
reset_carrier ==
    IF enablePPNLookup
    THEN /\ widget' = [widget EXCEPT !.useprevious = "normal", !.entry = "normal",
                                     !.volumeNo_entry = "normal",
                                     !.submit_button = "normal"]
         /\ entryText' = ""
         /\ volumeNoText' = "1"
         /\ processingDisc' = FALSE
         /\ finishedDisc' = FALSE
         /\ pc' = "loop"
    ELSE /\ pc' = "crashed"
         /\ UNCHANGED <<widget, entryText, volumeNoText, processingDisc, finishedDisc>>

Joined == threads[t1].status # "Processing"

\* if config.finishedDisc: t1.join() ...
main ==
    /\ UNCHANGED <<startup, socket, job>>
    /\ pc = "loop"
    /\ finishedDisc
    /\ IF Joined
       THEN reset_carrier
       ELSE /\ pc' = "join"
            /\ UNCHANGED <<widget, entryText, volumeNoText, processingDisc,
                           finishedDisc>>
    /\ UNCHANGED <<enablePPNLookup, startOnFinalize, readyToStart, finishedBatch,
                   batchIsOpen, quitFlag, batchFolder, batchManifest, catidOld,
                   titleOld, volumeNoOld, carrierNumber, t1, tv, files, threads>>

\* t1.join() returns
main_join ==
    /\ UNCHANGED <<startup, socket, job>>
    /\ pc = "join"
    /\ Joined
    /\ reset_carrier
    /\ UNCHANGED <<enablePPNLookup, startOnFinalize, readyToStart, finishedBatch,
                   batchIsOpen, quitFlag, batchFolder, batchManifest, catidOld,
                   titleOld, volumeNoOld, carrierNumber, t1, tv, files, threads>>

(***************************************************************************)
(* cdworker.processDisc, one thread per accepted job: the job reaches a    *)
(* terminal state, its record is appended to the batch manifest, the       *)
(* completion flag is set and the thread ends.  A thread is "Processing"   *)
(* while it is alive.  os._exit ends the worker threads too.               *)
(***************************************************************************)
ManifestRow(carrierData, outcome) ==
    <<carrierData.jobID, carrierData.PPN, carrierData.volumeNo, carrierData.title,
      "", BoolText(outcome = "Done"), "False", "False", "False", "False", "False">>

processDisc(j) ==
    /\ UNCHANGED <<startup, socket, job>>
    /\ j \in DOMAIN threads
    /\ pc # "exited"
    /\ threads[j].status = "Processing"
    /\ \E outcome \in Terminal :
        /\ threads' = [threads EXCEPT ![j].status = "Finished"]
        /\ manifest' = [manifest EXCEPT ![batchManifest] =
                           AppendRow(@, ManifestRow(threads[j].carrierData, outcome))]
    /\ finishedDisc' = TRUE
    /\ UNCHANGED <<enablePPNLookup, startOnFinalize, readyToStart, finishedBatch,
                   batchIsOpen, processingDisc, quitFlag, batchFolder, batchManifest,
                   gui, dirs, versionFile, logFile, batchesMade, pc>>

\* the worker threads run beside the main thread
cdworker == \E j \in DOMAIN threads : processDisc(j)

(***************************************************************************)
(* JobOrchestrator (spec.md, section 4.5): the steps of processDisc for    *)
(* the job of the first worker thread.  The status of the job names the    *)
(* step in progress; every action below is the return of that step's       *)
(* external call (or its timeout) and the transition taken on it.  A job   *)
(* that does not end in Done is recorded with success = false, then the    *)
(* disc is ejected (Failed) or rejected (Rejected).  The quit request is    *)
(* looked at between jobs only (section 5): the job in hand runs to its    *)
(* natural terminal state.                                                 *)
(***************************************************************************)
\* how a call of the robot driver or of a tool can end
CallResults == {"ok", "failed", "timeout"}

\* the error kind of a robot call that did not succeed
HardwareError(result) ==
    IF result = "timeout" THEN "HardwareTimeout" ELSE "HardwareCommandFailed"

\* the manifest record of a job
JobRow(carrierData, success, flags) ==
    <<carrierData.jobID, carrierData.PPN, carrierData.volumeNo, carrierData.title,
      "", BoolText(success), BoolText(flags.containsAudio),
      BoolText(flags.containsData), BoolText(flags.isCdExtra),
      BoolText(flags.isMixedMode), BoolText(flags.isCdInteractive)>>

\* the job moves to the next state and makes that state's external calls
Advance(j, status, calls) ==
    [j EXCEPT !.status = status, !.path = Append(@, status), !.calls = @ \o calls]

\* the result of an external call is noted
Returned(j, call, result) ==
    [j EXCEPT !.results = Append(@, <<call, result>>)]

Running == threads # <<>> /\ threads[1].status = "Processing" /\ pc # "exited"

\* the job ends without success: record, eject or reject, terminal state
EndWithoutSuccess(j, status, error) ==
    /\ job' = [Advance(j, status, <<IF status = "Rejected" THEN "reject" ELSE "eject">>)
                  EXCEPT !.error = error, !.success = "False"]
    /\ manifest' = [manifest EXCEPT ![batchManifest] =
                       AppendRow(@, JobRow(threads[1].carrierData, FALSE, j.mediaFlags))]

\* Idle -> Loading: on job submission; calls RobotController.load()
Submitted ==
    /\ Running
    /\ job.status = "Idle"
    /\ job' = Advance(job, "Loading", <<"load">>)
    /\ UNCHANGED <<config, gui, files, startup, socket, threads, pc>>

\* load() returns: Loading -> Classifying, or Rejected
Loading ==
    /\ Running
    /\ job.status = "Loading"
    /\ \E result \in CallResults :
        LET j == Returned(job, "load", result)
        IN  IF result = "ok"
            THEN /\ job' = Advance(j, "Classifying", <<"classify">>)
                 /\ UNCHANGED manifest
            ELSE EndWithoutSuccess(j, "Rejected", HardwareError(result))
    /\ UNCHANGED <<config, gui, dirs, versionFile, logFile, batchesMade, startup, socket,
                   threads, pc>>

\* AfterClassify with a seeded fault: a drive without a disc rejects the job
AfterClassify_noDiscRejects(error, onTimeout) ==
    CASE error = "" -> "Processing"
      [] error = "UnreadableMedia" -> "Failed"
      [] error = "NoDiscPresent" -> "Rejected"
      [] error = "HardwareTimeout" -> onTimeout

\* the state that follows Classifying; the spec leaves open which of the
\* two unsuccessful terminal states a timed-out classifier leads to
AfterClassify(error, onTimeout) ==
    CASE error = "" -> "Processing"
      [] error \in {"NoDiscPresent", "UnreadableMedia"} -> "Failed"
      [] error = "HardwareTimeout" -> onTimeout

\* classify() returns: Classifying -> Processing, or Failed, or Rejected
Classifying ==
    /\ Running
    /\ job.status = "Classifying"
    /\ \E toolOutput \in ToolOutputs, onTimeout \in {"Failed", "Rejected"} :
        LET c == classify(toolOutput)
            j == [Returned(job, "classify", toolOutput.exit)
                     EXCEPT !.report = c.report, !.mediaFlags = c.mediaFlags]
            next == AfterClassify(c.error, onTimeout)
        IN  IF next = "Processing"
            THEN /\ job' = Advance(j, "Processing", <<>>)
                 /\ UNCHANGED manifest
            ELSE EndWithoutSuccess(j, next, c.error)
    /\ UNCHANGED <<config, gui, dirs, versionFile, logFile, batchesMade, startup, socket,
                   threads, pc>>

\* Pipelines with a seeded fault: a disc with audio is ripped and not imaged
Pipelines_audioOnly(flags) ==
    IF flags.containsAudio THEN <<"rip">>
    ELSE IF flags.containsData THEN <<"image">> ELSE <<>>

\* the pipelines a disc is dispatched to: data first, then audio
Pipelines(flags) ==
    (IF flags.containsData THEN <<"image">> ELSE <<>>)
        \o (IF flags.containsAudio THEN <<"rip">> ELSE <<>>)

\* the error kind of a pipeline that did not succeed
PipelineError(call) == IF call = "image" THEN "ImagingFailed" ELSE "RipFailed"

\* the pipelines run one after the other; each returns a result
Processing ==
    /\ Running
    /\ job.status = "Processing"
    /\ \E imageResult, ripResult \in CallResults :
        LET todo == Pipelines(job.mediaFlags)
            resultOf(call) == IF call = "image" THEN imageResult ELSE ripResult
            done == [job EXCEPT
                       !.calls = @ \o todo,
                       !.results = @ \o [i \in DOMAIN todo |->
                                           <<todo[i], resultOf(todo[i])>>]]
            failed == {i \in DOMAIN todo : resultOf(todo[i]) # "ok"}
        IN  IF failed = {}
            THEN /\ job' = Advance(done, "Verifying", <<>>)
                 /\ UNCHANGED manifest
            ELSE EndWithoutSuccess(done, "Failed",
                     PipelineError(todo[CHOOSE i \in failed : \A k \in failed : i <= k]))
    /\ UNCHANGED <<config, gui, dirs, versionFile, logFile, batchesMade, startup, socket,
                   threads, pc>>

\* Processing -> Verifying: the post-hoc checks return
Verifying ==
    /\ Running
    /\ job.status = "Verifying"
    /\ \E verified \in BOOLEAN :
        IF verified
        THEN /\ job' = Advance(job, "Recording", <<>>)
             /\ UNCHANGED manifest
        ELSE EndWithoutSuccess(job, "Failed", "VerificationFailed")
    /\ UNCHANGED <<config, gui, dirs, versionFile, logFile, batchesMade, startup, socket,
                   threads, pc>>

\* Verifying -> Recording: ManifestWriter.append(job), then eject() is called
Recording ==
    /\ Running
    /\ job.status = "Recording"
    /\ job' = [Advance(job, "Ejecting", <<"eject">>) EXCEPT !.success = "True"]
    /\ manifest' = [manifest EXCEPT ![batchManifest] =
                       AppendRow(@, JobRow(threads[1].carrierData, TRUE, job.mediaFlags))]
    /\ UNCHANGED <<config, gui, dirs, versionFile, logFile, batchesMade, startup, socket,
                   threads, pc>>

\* AfterEject with a seeded fault: a failed eject fails the job
AfterEject_failureFails(result) == IF result = "ok" THEN "Done" ELSE "Failed"

\* the state that follows Ejecting
AfterEject(result) == "Done"

\* eject() returns: Ejecting -> Done; a failure is a warning
Ejecting ==
    /\ Running
    /\ job.status = "Ejecting"
    /\ \E result \in CallResults :
        job' = [Advance(Returned(job, "eject", result), AfterEject(result), <<>>)
                  EXCEPT !.warnings = IF result = "ok" THEN @
                                      ELSE @ \cup {HardwareError(result)}]
    /\ UNCHANGED <<config, gui, files, startup, socket, threads, pc>>

\* the worker signals completion and its thread ends
Completed ==
    /\ Running
    /\ job.status \in Terminal
    /\ threads' = [threads EXCEPT ![1].status = "Finished"]
    /\ finishedDisc' = TRUE
    /\ UNCHANGED <<enablePPNLookup, startOnFinalize, readyToStart, finishedBatch,
                   batchIsOpen, processingDisc, quitFlag, batchFolder, batchManifest,
                   gui, files, startup, socket, job, pc>>

\* The program after New and one accepted submission of volume 1: the
\* worker thread of the job has been started.
JobInit ==
    /\ enablePPNLookup \in BOOLEAN
    /\ startOnFinalize \in BOOLEAN
    /\ readyToStart = ~startOnFinalize
    /\ finishedBatch = FALSE
    /\ batchIsOpen = TRUE
    /\ processingDisc = TRUE
    /\ finishedDisc = FALSE
    /\ quitFlag = FALSE
    /\ batchFolder = 1
    /\ batchManifest = 1
    /\ catidOld = (IF enablePPNLookup THEN "p" ELSE "")
    /\ titleOld = (IF enablePPNLookup THEN "" ELSE "p")
    /\ volumeNoOld = "1"
    /\ carrierNumber = 1
    /\ t1 = 1
    /\ widget = [bNew |-> "disabled", bOpen |-> "disabled", bExit |-> "normal",
                 entry |-> "disabled", useprevious |-> "disabled",
                 volumeNo_entry |-> "disabled", submit_button |-> "disabled"]
    /\ entryText = " p "
    /\ volumeNoText = "1"
    /\ tv = <<[text |-> 1,
               values |-> <<catidOld, IF enablePPNLookup THEN "T" ELSE "p", "1">>]>>
    /\ threads = StartThread(<<>>, [jobID |-> JobIDs[1], PPN |-> catidOld,
                                    title |-> IF enablePPNLookup THEN "T" ELSE "p",
                                    volumeNo |-> "1"])
    /\ dirs = {NoFolder, 1}
    /\ versionFile = [f \in Folders |-> IF f = 1 THEN <<version>> ELSE NoFile]
    /\ manifest = [f \in Folders |-> IF f = 1 THEN <<headerBatchManifest>> ELSE NoFile]
    /\ logFile = {1}
    /\ batchesMade = 1
    /\ cdDriveLetter = "D:"
    /\ cdDrives = << {"D:"} >>
    /\ enableSocketAPI = FALSE
    /\ q = <<>>
    /\ job = NoJob
    /\ pc = "loop"

JobNext ==
    \/ Submitted
    \/ Loading
    \/ Classifying
    \/ Processing
    \/ Verifying
    \/ Recording
    \/ Ejecting
    \/ Completed

JobSpec == JobInit /\ [][JobNext]_vars

\* every external call returns or times out, so every step is taken
JobFairSpec == JobSpec /\ WF_vars(JobNext)

(***************************************************************************)
(* The end of a batch: reset_gui and the except clause of main().          *)
(***************************************************************************)
\* config.finishedBatch is assigned True nowhere in iromlab.py; the only
\* other code that runs is the worker, so the flag is raised, if ever,
\* while a worker thread is alive.
finishBatch ==
    /\ UNCHANGED <<startup, socket, job>>
    /\ pc # "exited"
    /\ \E j \in DOMAIN threads : threads[j].status = "Processing"
    /\ ~finishedBatch
    /\ finishedBatch' = TRUE
    /\ UNCHANGED <<enablePPNLookup, startOnFinalize, readyToStart, batchIsOpen,
                   processingDisc, finishedDisc, quitFlag, batchFolder,
                   batchManifest, gui, files, threads, pc>>

\* reset_gui: batchIsOpen, processingDisc, finishedDisc, batchFolder and the
\* text of the entry fields are not touched
reset_gui ==
    /\ carrierNumber' = 0
    /\ tv' = <<>>
    /\ readyToStart' = FALSE
    /\ finishedBatch' = FALSE
    /\ catidOld' = ""
    /\ titleOld' = ""
    /\ volumeNoOld' = ""
    /\ widget' = [widget EXCEPT !.bNew = "normal", !.bOpen = "normal",
                                !.bExit = "normal", !.submit_button = "disabled",
                                !.entry = "disabled", !.useprevious = "disabled",
                                !.volumeNo_entry = "disabled"]

\* except KeyboardInterrupt: the interrupt reaches main() while it runs its
\* own statements (the loop, or t1.join()); the loop then goes on.  With
\* the socket API on, t2.join() waits for the server, which never ends.
KeyboardInterrupt ==
    /\ UNCHANGED <<startup, socket, job>>
    /\ pc \in {"loop", "join"}
    /\ IF finishedBatch
       THEN /\ reset_gui
            /\ pc' = "loop"
       ELSE /\ pc' = IF ~quitFlag THEN "loop"
                     ELSE IF enableSocketAPI THEN "t2.join" ELSE "exited"
            /\ UNCHANGED <<carrierNumber, tv, readyToStart, finishedBatch, catidOld,
                           titleOld, volumeNoOld, widget>>
    /\ UNCHANGED <<enablePPNLookup, startOnFinalize, batchIsOpen, processingDisc,
                   finishedDisc, quitFlag, batchFolder, batchManifest, t1,
                   entryText, volumeNoText, files, threads>>

(***************************************************************************)
(* Use previous, and the socket API.                                       *)
(***************************************************************************)
\* str(n)
RECURSIVE str(_)
str(n) == IF n < 0 THEN "-" \o str(0 - n)
          ELSE IF n < 10 THEN Char(Digits, n + 1)
          ELSE str(n \div 10) \o Char(Digits, (n % 10) + 1)

\* entry.delete(0, tk.END); entry.insert(tk.END, new): the widget commands
\* of a disabled Entry change nothing
SetText(state, text, new) == IF state = "normal" THEN new ELSE text

\* the remembered value of the field of the mode: catidOld or titleOld
Previous == IF enablePPNLookup THEN catidOld ELSE titleOld

\* the volume number field after str(int(self.volumeNoOld) + 1) was put in
\* it; int raises ValueError when volumeNoOld is no integer, and the
\* statements after it are not reached
NextVolumeNo ==
    IF IntLiteral(volumeNoOld)
    THEN SetText(widget.volumeNo_entry, volumeNoText, str(int(volumeNoOld) + 1))
    ELSE volumeNoText

\* on_usepreviousPPN and on_usepreviousTitle: commands of the Use previous
\* button of the mode, which has no key binding
on_useprevious ==
    /\ UNCHANGED <<startup, socket, job>>
    /\ pc = "loop"
    /\ widget.useprevious = "normal"
    /\ IF Previous = ""
       THEN UNCHANGED <<entryText, volumeNoText>>
       ELSE /\ entryText' = SetText(widget.entry, entryText, Previous)
            /\ volumeNoText' = IF volumeNoOld # "" THEN NextVolumeNo
                               ELSE volumeNoText
    /\ UNCHANGED <<config, catidOld, titleOld, volumeNoOld, carrierNumber, t1,
                   widget, tv, files, threads, pc>>

\* the socket server thread puts what a client sent in the queue
server ==
    /\ enableSocketAPI
    /\ pc \notin {"getConfiguration", "exited"}
    /\ Len(q) < MaxQueue
    /\ \E message \in Messages : q' = Append(q, message)
    /\ UNCHANGED <<config, gui, files, startup, enableSocketAPI, job, threads, pc>>

\* handleSocketRequests, called by the loop of main(): q.get_nowait(), then
\* the message is put in the field of the mode; the bare except swallows
\* the ValueError of int(self.volumeNoOld)
handleSocketRequests ==
    /\ UNCHANGED <<startup, enableSocketAPI, job>>
    /\ pc = "loop"
    /\ enableSocketAPI
    /\ IF q = <<>>
       THEN UNCHANGED <<q, entryText, volumeNoText>>
       ELSE LET message == Head(q)
            IN  /\ q' = Tail(q)
                /\ entryText' = SetText(widget.entry, entryText, message)
                /\ volumeNoText' = IF message = Previous /\ message # ""
                                   THEN NextVolumeNo ELSE volumeNoText
    /\ UNCHANGED <<config, catidOld, titleOld, volumeNoOld, carrierNumber, t1,
                   widget, tv, files, threads, pc>>

Next ==
    \/ getConfiguration
    \/ on_create
    \/ on_open
    \/ on_submit
    \/ on_quit
    \/ on_quit_wait
    \/ main
    \/ main_join
    \/ cdworker

Spec == Init /\ [][Next]_vars

\* The program with batches that end: the worker raises finishedBatch and
\* the interrupt reaches main().
BatchEndNext ==
    \/ getConfiguration
    \/ on_create
    \/ on_open
    \/ on_submit
    \/ on_quit
    \/ on_quit_wait
    \/ main
    \/ main_join
    \/ cdworker
    \/ finishBatch
    \/ KeyboardInterrupt

BatchEndSpec == Init /\ [][BatchEndNext]_vars

\* The program with the socket API switched on and an operator who uses
\* the Use previous button.
EntryNext ==
    \/ getConfiguration
    \/ on_create
    \/ on_open
    \/ on_submit
    \/ on_quit
    \/ on_quit_wait
    \/ main
    \/ main_join
    \/ cdworker
    \/ on_useprevious
    \/ server
    \/ handleSocketRequests

EntrySpec == SocketInit /\ [][EntryNext]_vars

\* The main loop polls every 0.1 s, the wait loop of on_quit every 2 s, and
\* every external call of a worker ends or times out.
FairSpec ==
    /\ Spec
    /\ WF_vars(getConfiguration)
    /\ WF_vars(main)
    /\ WF_vars(main_join)
    /\ WF_vars(on_quit_wait)
    /\ \A j \in 1..MaxJobs : WF_vars(processDisc(j))

(***************************************************************************)
(* Properties.                                                             *)
(***************************************************************************)
Jobs == DOMAIN threads
InFlight == {j \in Jobs : threads[j].status = "Processing"}
Finished == {j \in Jobs : threads[j].status = "Finished"}

\* the data rows of a manifest file
DataRows(f) ==
    IF manifest[f] = NoFile THEN <<>>
    ELSE SelectSeq(manifest[f], LAMBDA row : row # headerBatchManifest)

\* the places <<folder, row number>> where job j is recorded
RowsOf(j) ==
    UNION {{<<f, i>> : i \in {n \in 1..Len(DataRows(f)) :
                                DataRows(f)[n][1] = threads[j].carrierData.jobID}}
           : f \in Folders}

\* C1: at most one job is in flight at any time: no two worker threads
\* started by on_submit are ever processing a disc concurrently.
C1_AtMostOneInFlight == Cardinality(InFlight) <= 1

\* C2: the process does not exit (os._exit) while a worker is still
\* processing a disc, whatever the configuration.
C2_NoExitWhileProcessing == pc = "exited" => InFlight = {}

\* C3: if Exit is requested while a batch is open and ready, the process
\* eventually exits.
C3_QuitEventuallyExits == (quitFlag /\ readyToStart) ~> (pc = "exited")

\* C4: once quitFlag is set, no step starts a worker thread.
C4_NoJobAfterQuit == [][quitFlag => Len(threads') = Len(threads)]_vars

\* C4 witness: Exit was requested in an open batch while a job was in flight.
C4_Witness == quitFlag /\ batchIsOpen /\ InFlight # {}

\* C5: once a worker has signalled completion, the main loop eventually
\* acknowledges it (both flags reset, entry fields and Submit re-enabled),
\* unless the operator asks to exit first.
C5_CompletionAcknowledged ==
    finishedDisc ~> (\/ quitFlag
                     \/ /\ ~finishedDisc
                        /\ ~processingDisc
                        /\ widget.entry = "normal"
                        /\ widget.volumeNo_entry = "normal"
                        /\ widget.submit_button = "normal")

\* C6: every manifest file holds exactly one header row, and it is the
\* first row.
C6_OneHeaderFirst ==
    \A f \in Folders :
        manifest[f] # NoFile =>
            /\ manifest[f][1] = headerBatchManifest
            /\ \A i \in 2..Len(manifest[f]) : manifest[f][i] # headerBatchManifest

\* C7: every job handed to a worker has a volume number that is an
\* integer literal of value at least 1.
C7_VolumeNoPositive ==
    \A j \in Jobs :
        /\ IntLiteral(threads[j].carrierData.volumeNo)
        /\ int(threads[j].carrierData.volumeNo) >= 1

\* C7 witness: a job was accepted and a submission whose volume number is
\* no integer, or is less than 1, was rejected.
C7_Witness ==
    /\ Jobs # {}
    /\ carrierNumber > Len(threads)
    /\ (~IntLiteral(volumeNoOld) \/ int(volumeNoOld) < 1)

\* C8 (as claimed): in every job handed to a worker exactly one of PPN and
\* title is non-empty.
C8_ExactlyOnePopulated ==
    \A j \in Jobs :
        (threads[j].carrierData.PPN # "") # (threads[j].carrierData.title # "")

\* C8 (amended): in every job handed to a worker the PPN is non-empty in
\* PPN-lookup mode and empty in title mode.
C8_PPNPopulatedIffLookup ==
    \A j \in Jobs : (threads[j].carrierData.PPN # "") <=> enablePPNLookup

\* C8 witness: a title-mode job handed to a worker with neither PPN nor title.
C8_Witness ==
    \E j \in Jobs : /\ ~enablePPNLookup
                    /\ threads[j].carrierData.PPN = ""
                    /\ threads[j].carrierData.title = ""

\* C9: manifest records are appended in submission order: when a job is
\* recorded, every job accepted before it is recorded already.
C9_RecordedInSubmissionOrder ==
    \A i, k \in Jobs : (i < k /\ RowsOf(k) # {}) => RowsOf(i) # {}

C12_DriveCheckedAtStartup ==
    /\ Len(cdDrives) <= 1
    /\ (Len(cdDrives) = 1 /\ cdDriveLetter \notin cdDrives[1]) =>
          /\ pc = "exited"
          /\ ~batchIsOpen
          /\ batchFolder = NoFolder
          /\ dirs = {NoFolder}
          /\ carrierNumber = 0
          /\ threads = <<>>
    /\ (batchIsOpen \/ batchFolder # NoFolder \/ carrierNumber > 0 \/ threads # <<>>) =>
          (Len(cdDrives) = 1 /\ cdDriveLetter \in cdDrives[1])

\* C12 witness: the program has exited at startup on a drive letter that is
\* not among the detected drives.
C12_Witness ==
    pc = "exited" /\ Len(cdDrives) = 1 /\ cdDriveLetter \notin cdDrives[1]

\* The first states of JobSpec are states Spec reaches: each of these is
\* violated as an invariant of Spec.
JobInitNotReached == ~(JobInit /\ enablePPNLookup)
JobInitNotReachedTitleMode == ~(JobInit /\ ~enablePPNLookup)

\* the external calls of the job that ran into the timeout
TimedOut == {job.results[i][1] : i \in {k \in DOMAIN job.results :
                                            job.results[k][2] = "timeout"}}

\* the result of the job's call of a pipeline or of the robot
ResultOf(call) ==
    {job.results[i][2] : i \in {k \in DOMAIN job.results : job.results[k][1] = call}}

\* Inside the worker every job ends: the steps of the orchestrator lead
\* to a terminal state, and a job whose load, classifier or pipeline call
\* timed out is Rejected or Failed.  (A timeout of the final eject leaves
\* the job Done.)  Checked under JobFairSpec.
Job_EveryJobEnds ==
    /\ <>(job.status \in Terminal)
    /\ []((TimedOut \cap {"load", "classify", "image", "rip"} # {}) =>
             job.status \in {"Rejected", "Failed"})

\* C11: every submitted job eventually reaches a terminal state: the
\* worker thread started for it ends, with the job recorded.
C11_EverySubmittedJobEnds ==
    \A j \in 1..MaxJobs : (j \in Jobs) ~> (j \in Finished /\ RowsOf(j) # {})

\* the last row of the manifest of the batch
LastRow == manifest[batchManifest][Len(manifest[batchManifest])]

\* C13: when the classifier reports NoDiscPresent the job has gone Idle ->
\* Loading -> Classifying -> Failed, a manifest row with success = false
\* was appended for it, and the eject was attempted: it is the last call
\* made, before the worker signals completion.
C13_NoDiscFails ==
    job.error = "NoDiscPresent" =>
        /\ job.path = <<"Idle", "Loading", "Classifying", "Failed">>
        /\ job.success = "False"
        /\ Len(manifest[batchManifest]) = 2
        /\ LastRow = JobRow(threads[1].carrierData, FALSE, NoFlags)
        /\ LastRow[6] = "False"
        /\ job.calls = <<"load", "classify", "eject">>

\* C13 witness: a job without a disc has ended and the worker has signalled
\* completion.
C13_Witness == job.error = "NoDiscPresent" /\ finishedDisc

\* C14: for a mixed-mode disc that has left Processing both pipelines were
\* invoked, the data pipeline first; the job is Failed if either of them
\* did not succeed, and so it is Done only if both succeeded.
C14_MixedModeNeedsBoth ==
    (job.mediaFlags.isMixedMode /\ job.status # "Processing") =>
        /\ SelectSeq(job.calls, LAMBDA c : c \in {"image", "rip"}) = <<"image", "rip">>
        /\ (ResultOf("image") \cup ResultOf("rip") # {"ok"}) => job.status = "Failed"
        /\ job.status \in {"Done", "Ejecting", "Recording", "Verifying"} =>
              (ResultOf("image") = {"ok"} /\ ResultOf("rip") = {"ok"})
        /\ job.status = "Done" => (job.success = "True" /\ LastRow[6] = "True")

\* C14 witness: a mixed-mode job is Done and the worker has signalled
\* completion.
C14_Witness ==
    job.mediaFlags.isMixedMode /\ job.status = "Done" /\ finishedDisc

\* C15: a job that has reached Recording, where its manifest row is
\* written, ends in Done whatever the eject returns; a failed eject is
\* surfaced as a warning and the row (success = true) stays as it is.
C15_EjectFailureStillDone ==
    (\E i \in DOMAIN job.path : job.path[i] = "Recording") =>
        /\ job.status \in {"Recording", "Ejecting", "Done"}
        /\ job.status = "Done" =>
              /\ job.success = "True"
              /\ LastRow = JobRow(threads[1].carrierData, TRUE, job.mediaFlags)
              /\ (ResultOf("eject") # {"ok"}) <=> (job.warnings # {})

\* C15 witness: the eject failed or timed out and the job is Done.
C15_Witness ==
    /\ job.status = "Done"
    /\ ResultOf("eject") \cap {"failed", "timeout"} # {}
    /\ finishedDisc

\* the job has been classified: the classifier returned a report of a disc
Classified == job.report.tracks # <<>>

\* C17: for the report of every classified job exactly one of the five
\* rules fires; isMixedMode is set exactly when the track table has an
\* audio and a data track; at most one of isMixedMode, isCdExtra and
\* isCdInteractive is set; isMixedMode and isCdExtra each come with both
\* containsAudio and containsData; one of containsAudio and containsData
\* is set.
C17_OneRuleFires ==
    Classified =>
        LET r == job.report
            f == job.mediaFlags
        IN  /\ Cardinality({n \in 1..5 : Fires(n, r)}) = 1
            /\ \E n \in 1..5 : Fires(n, r) /\ f = RuleFlags(n)
            /\ f.isMixedMode <=> (AnyAudio(r) /\ AnyData(r))
            /\ Cardinality({x \in {"isMixedMode", "isCdExtra", "isCdInteractive"} :
                                f[x]}) <= 1
            /\ f.isMixedMode => (f.containsAudio /\ f.containsData)
            /\ f.isCdExtra => (f.containsAudio /\ f.containsData)
            /\ f.containsAudio \/ f.containsData

\* C17 witness: a multi-session disc with an audio and a data track and the
\* signature of a trailing audio session has been classified (the
\* conditions of rules 1 and 5 both hold for it).
C17_Witness ==
    /\ Classified
    /\ AnyAudio(job.report) /\ AnyData(job.report)
    /\ job.report.sessions > 1 /\ job.report.trailingAudio
    /\ job.status = "Processing"

\* the batch folders: the folders on_create has made
BatchFolders == dirs \ {NoFolder}

\* C18 (as claimed): every batch folder holds its version marker, and the
\* manifest and the version marker are all the program keeps in it.
C18_OnlyManifestAndVersion ==
    \A f \in BatchFolders : versionFile[f] = <<version>> /\ f \notin logFile

\* C18 (amended): version.txt is written only by the step that makes the
\* batch folder, with the version of the program, and no later step
\* (opening the batch, submitting a job, a worker) writes it again; next to
\* the manifest and the version marker the folder of a batch that becomes
\* open holds the log file batch.log.
C18_VersionWrittenAtCreation ==
    [][/\ \A f \in Folders :
             versionFile'[f] # versionFile[f] =>
                 /\ f \notin dirs /\ f \in dirs'
                 /\ versionFile[f] = NoFile
                 /\ versionFile'[f] = <<version>>
       /\ \A f \in dirs' \ {NoFolder} : versionFile'[f] = <<version>>
       /\ (batchIsOpen' /\ ~batchIsOpen) => batchFolder' \in logFile']_vars

\* C18 witness: a batch is open in a folder on_create made, the folder
\* holds the log file, and a job submitted into the batch has been recorded.
C18_Witness ==
    /\ batchFolder \in BatchFolders
    /\ batchFolder \in logFile
    /\ widget.bOpen = "disabled"
    /\ Len(manifest[batchFolder]) > 1

\* a worker has been started whose completion the main loop has not yet
\* acknowledged
Unacknowledged == InFlight # {} \/ finishedDisc

\* C19: outside the handlers processingDisc is True exactly when a worker
\* has been started and its completion has not been acknowledged yet.
C19_ProcessingIffUnacknowledged ==
    pc = "loop" => (processingDisc <=> Unacknowledged)

\* C20: once a batch is open no step changes the batch folder or the path
\* of the batch manifest.
C20_BatchFolderFixed ==
    [][batchIsOpen => (batchFolder' = batchFolder /\ batchManifest' = batchManifest)]_vars

(***************************************************************************)
(* C25: the queue number shown for a job is the count of the jobs accepted *)
(* so far: the rows of the treeview, newest on top, are numbered           *)
(* Len(tv), ..., 2, 1, so that a rejected submission consumes no number.   *)
(***************************************************************************)
C25_QueueNumberIsAcceptedCount ==
    \A i \in DOMAIN tv : tv[i].text = Len(tv) - i + 1

(***************************************************************************)
(* C22: an on_create that cannot create the batch folder, or cannot set up *)
(* the log file, opens no batch: batchIsOpen and readyToStart keep their   *)
(* value and every button and entry field keeps its state.  The step is an *)
(* on_create when it draws a batch name; it failed when the new batch      *)
(* folder does not exist or holds no log file afterwards.                  *)
(***************************************************************************)
C22_FailedCreateOpensNoBatch ==
    [][(/\ batchesMade' # batchesMade
        /\ (batchFolder' \notin dirs' \/ batchFolder' \notin logFile'))
       => UNCHANGED <<batchIsOpen, readyToStart, widget>>]_vars

\* a failed on_create has left the application without a batch
C22_Witness ==
    /\ batchesMade > 0
    /\ batchFolder \notin logFile
    /\ ~batchIsOpen /\ ~readyToStart
    /\ widget.entry = "disabled" /\ widget.volumeNo_entry = "disabled"
    /\ widget.submit_button = "disabled"

(***************************************************************************)
(* C23: when the operator cancels the directory dialog of on_open, so that *)
(* batchFolder becomes empty, no batch is opened: batchIsOpen and          *)
(* readyToStart keep their value, New and Open stay enabled and the entry  *)
(* fields and the Submit button stay disabled.  The step is a cancelled    *)
(* on_open when batchFolder becomes empty or the log file of the empty     *)
(* folder name appears.                                                    *)
(***************************************************************************)
C23_CancelledOpenOpensNoBatch ==
    [][(\/ (batchFolder # NoFolder /\ batchFolder' = NoFolder)
        \/ (NoFolder \notin logFile /\ NoFolder \in logFile'))
       => UNCHANGED <<batchIsOpen, readyToStart, widget>>]_vars

\* Open was cancelled and the application is still without a batch
C23_Witness ==
    /\ NoFolder \in logFile
    /\ batchFolder = NoFolder
    /\ ~batchIsOpen /\ ~readyToStart
    /\ widget.bNew = "normal" /\ widget.bOpen = "normal"
    /\ widget.entry = "disabled" /\ widget.volumeNo_entry = "disabled"
    /\ widget.submit_button = "disabled"

(***************************************************************************)
(* C21: when reset_gui has run after the end of a batch (the step that     *)
(* clears finishedBatch) the application is in its no-batch state:         *)
(* batchIsOpen, readyToStart and finishedBatch are False and carrierNumber *)
(* is 0; and as long as New and Open were not used again (the New button   *)
(* is enabled) no submission is accepted, so no worker is started.         *)
(***************************************************************************)
C21_ResetGuiClosesBatch ==
    [][/\ (finishedBatch /\ ~finishedBatch') =>
              (~batchIsOpen' /\ ~readyToStart' /\ carrierNumber' = 0)
       /\ widget.bNew = "normal" => Len(threads') = Len(threads)]_vars

(***************************************************************************)
(* C24: whenever a previous PPN (or title) exists, Use previous puts the   *)
(* PPN (title) of the last accepted job, the top row of the treeview, in   *)
(* the field of the mode and sets the volume number field to the volume    *)
(* number of that job plus 1; a rejected submission is not remembered.     *)
(***************************************************************************)
C24_UsePreviousOfLastAccepted ==
    [][(on_useprevious /\ Previous # "") =>
          /\ tv # <<>>
          /\ entryText' = tv[1].values[IF enablePPNLookup THEN 1 ELSE 2]
          /\ volumeNoText' = str(int(tv[1].values[3]) + 1)]_vars

(***************************************************************************)
(* C26: a poll of handleSocketRequests (a step that takes from the queue)  *)
(* takes one message and shows it in the PPN (title) field, so that no     *)
(* message taken is lost; the volume number field changes only when the    *)
(* message is non-empty and equals the previous PPN (title), and then to   *)
(* the previous volume number plus 1.                                      *)
(***************************************************************************)
C26_MessageTakenIsShown ==
    [][Len(q') < Len(q) =>
          /\ q' = Tail(q)
          /\ entryText' = Head(q)
          /\ volumeNoText' # volumeNoText =>
                /\ Head(q) # "" /\ Head(q) = Previous
                /\ IntLiteral(volumeNoOld)
                /\ volumeNoText' = str(int(volumeNoOld) + 1)]_vars

=============================================================================
